---- MODULE Spec2Model ----
(***************************************************************************)
(* The Minesweeper knowledge base of src/minesweeper/minesweeper.py:       *)
(* class Sentence (a set of cells and the number of mines among them) and  *)
(* class MinesweeperAI (moves_made, safes, mines and the list `knowledge`  *)
(* of sentences), with add_knowledge and its simplification pass           *)
(* mark_sels_as_mine_or_safe.                                              *)
(*                                                                         *)
(* A cell is a pair <<i, j>>.  A sentence is a record with the four fields *)
(* of Sentence.__init__.  `knowledge` is a sequence: the code keeps a      *)
(* Python list, iterates it in order and removes from it by value.         *)
(***************************************************************************)
EXTENDS Integers, Sequences, FiniteSets, TLC

\* Board dimensions (MinesweeperAI.height, MinesweeperAI.width).
Height == 3
Width == 3
\* Largest count handed to add_knowledge when counts are arbitrary.
MaxCount == 2
\* Largest number of mines on the board of the truthful specification.
MaxMines == 2
\* Number of operations performed on one knowledge base.
MaxCalls == 3
\* Number of Sentence objects built outside a knowledge base.
MaxSentences == 2
\* Number of pages of a corpus.
MaxPages == 3
\* Denominator of the damping factors tried.
MaxDen == 4

VARIABLES
    board,           \* Minesweeper.mines: the cells that hold a mine
    moves_made,      \* MinesweeperAI.moves_made
    safes,           \* MinesweeperAI.safes
    mines,           \* MinesweeperAI.mines
    knowledge,       \* MinesweeperAI.knowledge
    last_op,         \* the operation that returned last
    arg_cell,        \* its cell argument
    arg_count,       \* the count argument of the last add_knowledge
    new_sentence,    \* add_knowledge's local new_sentence (line 219)
    kb_resolution,   \* `knowledge` when add_knowledge reached line 231
    new_sentences,   \* add_knowledge's local new_sentences (line 232)
    raised,          \* TRUE once a call ended with an exception
    calls,           \* number of operations performed
    removed,         \* the sentences the last add_knowledge removed (line 271)
    repeated,        \* the last call repeats the call before it
    ret_move,        \* result of the last make_safe_move / make_random_move
    sentences,       \* Sentence objects constructed outside a knowledge base
    arg_index,       \* the one of them the last Sentence method was called on
    ret_cells,       \* result of the last known_mines / known_safes
    corpus,          \* pagerank: page -> set of the pages it links to
    arg_page,        \* the page of the last transition_model call
    arg_damping,     \* its damping factor, a fraction <<numerator, denominator>>
    ret_dist         \* the dictionary it returned, page -> fraction

vars == <<board, moves_made, safes, mines, knowledge, last_op, arg_cell,
          arg_count, new_sentence, kb_resolution, new_sentences, raised, calls,
          removed, repeated, ret_move, sentences, arg_index, ret_cells,
          corpus, arg_page, arg_damping, ret_dist>>

Cells == (0..(Height - 1)) \X (0..(Width - 1))

Counts == (-1)..MaxCount

NoCell == <<-1, -1>>

\* Python's None, as the result of a move query
None == NoCell

-----------------------------------------------------------------------------
(* class Sentence *)

Sentence(cells, count) ==
    [cells |-> cells, count |-> count,
     known_mine_set |-> {}, known_safe_set |-> {}]

\* Sentence.__eq__
Sentence_eq(s, other) == s.cells = other.cells /\ s.count = other.count

\* Sentence.mark_mine without the membership test of line 131
Sentence_mark_mine_unguarded(s, cell) ==
    [s EXCEPT !.known_mine_set = @ \cup {cell},
              !.cells = @ \ {cell},
              !.count = @ - 1]

\* Sentence.mark_mine without line 134 (the count is not decremented)
Sentence_mark_mine_keeps_count(s, cell) ==
    IF cell \in s.cells
    THEN [s EXCEPT !.known_mine_set = @ \cup {cell},
                   !.cells = @ \ {cell}]
    ELSE s

Sentence_mark_mine(s, cell) ==
    IF cell \in s.cells
    THEN [s EXCEPT !.known_mine_set = @ \cup {cell},
                   !.cells = @ \ {cell},
                   !.count = @ - 1]
    ELSE s

\* Sentence.mark_safe decrementing the count as mark_mine does
Sentence_mark_safe_decrements(s, cell) ==
    IF cell \in s.cells
    THEN [s EXCEPT !.known_safe_set = @ \cup {cell},
                   !.cells = @ \ {cell},
                   !.count = @ - 1]
    ELSE s

Sentence_mark_safe(s, cell) ==
    IF cell \in s.cells
    THEN [s EXCEPT !.known_safe_set = @ \cup {cell},
                   !.cells = @ \ {cell}]
    ELSE s

\* for cell in self.cells.copy(): self.mark_mine(cell=cell)
RECURSIVE Sentence_mark_mine_each(_, _)
Sentence_mark_mine_each(s, cs) ==
    IF cs = {} THEN s
    ELSE LET cell == CHOOSE c \in cs : TRUE
         IN  Sentence_mark_mine_each(Sentence_mark_mine(s, cell), cs \ {cell})

\* for cell in self.cells.copy(): self.mark_safe(cell=cell)
RECURSIVE Sentence_mark_safe_each(_, _)
Sentence_mark_safe_each(s, cs) ==
    IF cs = {} THEN s
    ELSE LET cell == CHOOSE c \in cs : TRUE
         IN  Sentence_mark_safe_each(Sentence_mark_safe(s, cell), cs \ {cell})

\* Sentence.known_mines: [self, ret], the object after the call and the
\* value returned
Sentence_known_mines(s) ==
    LET s1 == IF Cardinality(s.cells) = s.count
              THEN Sentence_mark_mine_each(s, s.cells) ELSE s
    IN  [self |-> s1, ret |-> s1.known_mine_set]

\* Sentence.known_safes: [self, ret]
Sentence_known_safes(s) ==
    LET s1 == IF s.count = 0
              THEN Sentence_mark_safe_each(s, s.cells) ELSE s
    IN  [self |-> s1, ret |-> s1.known_safe_set]

-----------------------------------------------------------------------------
(* class MinesweeperAI.  The operators below work on a record `ai` holding *)
(* the object's four fields, and `raised` for an exception in flight.      *)

AI_init ==
    [moves_made |-> {}, mines |-> {}, safes |-> {}, knowledge |-> <<>>,
     raised |-> FALSE]

\* MinesweeperAI.mark_mine without the loop of lines 177-178
AI_mark_mine_sentences_untouched(ai, cell) ==
    [ai EXCEPT !.mines = @ \cup {cell}]

\* MinesweeperAI.mark_mine
AI_mark_mine(ai, cell) ==
    [ai EXCEPT !.mines = @ \cup {cell},
               !.knowledge = [k \in DOMAIN @ |-> Sentence_mark_mine(@[k], cell)]]

\* MinesweeperAI.mark_safe with line 185 as `self.safes = {cell}`
AI_mark_safe_replaces(ai, cell) ==
    [ai EXCEPT !.safes = {cell},
               !.knowledge = [k \in DOMAIN @ |-> Sentence_mark_safe(@[k], cell)]]

\* MinesweeperAI.mark_safe without line 185
AI_mark_safe_forgets_cell(ai, cell) ==
    [ai EXCEPT !.knowledge = [k \in DOMAIN @ |-> Sentence_mark_safe(@[k], cell)]]

\* MinesweeperAI.mark_safe
AI_mark_safe(ai, cell) ==
    [ai EXCEPT !.safes = @ \cup {cell},
               !.knowledge = [k \in DOMAIN @ |-> Sentence_mark_safe(@[k], cell)]]

\* for cell in sentence.cells.copy(): self.mark_mine(cell)
RECURSIVE mark_mine_each(_, _)
mark_mine_each(ai, cs) ==
    IF cs = {} THEN ai
    ELSE LET cell == CHOOSE c \in cs : TRUE
         IN  mark_mine_each(AI_mark_mine(ai, cell), cs \ {cell})

\* for cell in sentence.cells.copy(): self.mark_safe(cell)
RECURSIVE mark_safe_each(_, _)
mark_safe_each(ai, cs) ==
    IF cs = {} THEN ai
    ELSE LET cell == CHOOSE c \in cs : TRUE
         IN  mark_safe_each(AI_mark_safe(ai, cell), cs \ {cell})

\* `sentence in self.knowledge`: list membership compares with __eq__
InKnowledge(kb, s) == \E k \in DOMAIN kb : Sentence_eq(kb[k], s)

\* self.knowledge.remove(sentence): drops the first element equal to it
ListRemove(kb, s) ==
    LET k == CHOOSE i \in DOMAIN kb :
                 /\ Sentence_eq(kb[i], s)
                 /\ \A h \in 1..(i - 1) : ~Sentence_eq(kb[h], s)
    IN  SubSeq(kb, 1, k - 1) \o SubSeq(kb, k + 1, Len(kb))

\* Lines 256-267 without the branch `if (sentence.count == 0)` of line 264
PassVisit_mines_only(st, k) ==
    LET s == st.ai.knowledge[k]
    IN  IF Cardinality(s.cells) = 0
        THEN [st EXCEPT !.rem = Append(@, k)]
        ELSE IF Cardinality(s.cells) = s.count /\ s.count # 0
        THEN [ai |-> mark_mine_each(st.ai, s.cells),
              rem |-> Append(st.rem, k)]
        ELSE st

\* One iteration of the first loop of mark_sels_as_mine_or_safe (lines
\* 256-267) on the k-th sentence.  st = [ai, rem]: rem lists, by position
\* in `knowledge`, the sentences appended to sentences_to_remove.
PassVisit(st, k) ==
    LET s == st.ai.knowledge[k]
    IN  IF Cardinality(s.cells) = 0
        THEN [st EXCEPT !.rem = Append(@, k)]
        ELSE LET st1 == IF Cardinality(s.cells) = s.count /\ s.count # 0
                        THEN [ai |-> mark_mine_each(st.ai, s.cells),
                              rem |-> Append(st.rem, k)]
                        ELSE st
                 s1 == st1.ai.knowledge[k]
             IN  IF s1.count = 0
                 THEN [ai |-> mark_safe_each(st1.ai, s1.cells),
                       rem |-> Append(st1.rem, k)]
                 ELSE st1

RECURSIVE PassLoop(_, _)
PassLoop(st, k) ==
    IF k > Len(st.ai.knowledge) THEN st
    ELSE PassLoop(PassVisit(st, k), k + 1)

\* Second loop (lines 269-271): todo holds the scheduled sentences.
RECURSIVE RemoveLoop(_, _)
RemoveLoop(kb, todo) ==
    IF todo = <<>> THEN kb
    ELSE RemoveLoop(IF InKnowledge(kb, Head(todo))
                    THEN ListRemove(kb, Head(todo)) ELSE kb,
                    Tail(todo))

\* The elements the second loop removes from `knowledge`, in order.
RECURSIVE RemovedLoop(_, _)
RemovedLoop(kb, todo) ==
    IF todo = <<>> THEN <<>>
    ELSE IF InKnowledge(kb, Head(todo))
    THEN LET k == CHOOSE i \in DOMAIN kb :
                      /\ Sentence_eq(kb[i], Head(todo))
                      /\ \A h \in 1..(i - 1) : ~Sentence_eq(kb[h], Head(todo))
         IN  <<kb[k]>> \o RemovedLoop(ListRemove(kb, Head(todo)), Tail(todo))
    ELSE RemovedLoop(kb, Tail(todo))

\* Third loop (lines 273-276): Sentence has no method `remove`, so reaching
\* line 276 raises AttributeError.
RemoveRaises(ai) ==
    \E k \in DOMAIN ai.knowledge : ai.knowledge[k].cells \cap ai.mines # {}

mark_sels_as_mine_or_safe(ai) ==
    LET st   == PassLoop([ai |-> ai, rem |-> <<>>], 1)
        todo == [n \in DOMAIN st.rem |-> st.ai.knowledge[st.rem[n]]]
        ai2  == [st.ai EXCEPT !.knowledge = RemoveLoop(@, todo)]
    IN  [ai2 EXCEPT !.raised = RemoveRaises(ai2)]

\* The elements one run of mark_sels_as_mine_or_safe removes.
PassRemoved(ai) ==
    LET st   == PassLoop([ai |-> ai, rem |-> <<>>], 1)
        todo == [n \in DOMAIN st.rem |-> st.ai.knowledge[st.rem[n]]]
    IN  RemovedLoop(st.ai.knowledge, todo)

-----------------------------------------------------------------------------
(* add_knowledge *)

\* range(cell[0] - 1, cell[0] + 2) x range(cell[1] - 1, cell[1] + 2)
Around(cell) ==
    ((cell[1] - 1)..(cell[1] + 1)) \X ((cell[2] - 1)..(cell[2] + 1))

InBounds(c) == 0 <= c[1] /\ c[1] < Height /\ 0 <= c[2] /\ c[2] < Width

\* Lines 209-219 without the test `(i, j) in self.safes` of line 212
BuildSentence_keeps_safes(ai, cell, count) ==
    LET cand == {c \in Around(cell) : c # cell}
    IN  Sentence({c \in cand : c \notin ai.mines /\ InBounds(c)},
                 count - Cardinality({c \in cand : c \in ai.mines}))

\* Lines 209-219 without `count-=1` of line 215
BuildSentence_counts_known_mines(ai, cell, count) ==
    LET cand == {c \in Around(cell) : c # cell /\ c \notin ai.safes}
    IN  Sentence({c \in cand : c \notin ai.mines /\ InBounds(c)}, count)

\* Lines 209-219: the sentence built from the revealed cell.
BuildSentence(ai, cell, count) ==
    LET cand == {c \in Around(cell) : c # cell /\ c \notin ai.safes}
    IN  Sentence({c \in cand : c \notin ai.mines /\ InBounds(c)},
                 count - Cardinality({c \in cand : c \in ai.mines}))

\* Lines 224-227
PurgeCell(kb, cell) ==
    [k \in DOMAIN kb |-> [kb[k] EXCEPT !.cells = @ \ {cell}]]

\* Lines 233-244 with the operands of both count differences exchanged
ResolvePair_swapped_counts(kb, a, b) ==
    LET sentence  == kb[a]
        _sentence == kb[b]
    IN  IF \/ Sentence_eq(sentence, _sentence)
           \/ Cardinality(sentence.cells) = Cardinality(_sentence.cells)
        THEN <<>>
        ELSE IF sentence.cells \subseteq _sentence.cells
        THEN <<Sentence(_sentence.cells \ sentence.cells,
                        sentence.count - _sentence.count)>>
        ELSE IF _sentence.cells \subseteq sentence.cells
        THEN <<Sentence(sentence.cells \ _sentence.cells,
                        _sentence.count - sentence.count)>>
        ELSE <<>>

\* The body of the nested loops of lines 233-244 for the pair (a, b) of
\* positions: the sentences appended to new_sentences.
ResolvePair(kb, a, b) ==
    LET sentence  == kb[a]
        _sentence == kb[b]
    IN  IF \/ Sentence_eq(sentence, _sentence)
           \/ Cardinality(sentence.cells) = Cardinality(_sentence.cells)
        THEN <<>>
        ELSE IF sentence.cells \subseteq _sentence.cells
        THEN <<Sentence(_sentence.cells \ sentence.cells,
                        _sentence.count - sentence.count)>>
        ELSE IF _sentence.cells \subseteq sentence.cells
        THEN <<Sentence(sentence.cells \ _sentence.cells,
                        sentence.count - _sentence.count)>>
        ELSE <<>>

RECURSIVE ResolveLoop(_, _, _)
ResolveLoop(kb, a, b) ==
    IF a > Len(kb) THEN <<>>
    ELSE IF b > Len(kb) THEN ResolveLoop(kb, a + 1, 1)
    ELSE ResolvePair(kb, a, b) \o ResolveLoop(kb, a, b + 1)

Resolution(kb) == ResolveLoop(kb, 1, 1)

\* Lines 205-229: up to and including the first simplification pass.
\* [ai, new_sentence, removed]
AddKnowledgeFirstHalf(ai, cell, count) ==
    LET ai1 == AI_mark_safe([ai EXCEPT !.moves_made = @ \cup {cell}], cell)
        ns  == BuildSentence(ai1, cell, count)
        kb2 == IF InKnowledge(ai1.knowledge, ns)
               THEN ai1.knowledge ELSE Append(ai1.knowledge, ns)
        ai3 == [ai1 EXCEPT !.knowledge = PurgeCell(kb2, cell)]
    IN  [ai |-> mark_sels_as_mine_or_safe(ai3), new_sentence |-> ns,
         removed |-> PassRemoved(ai3)]

\* The whole call: [ai, new_sentence, kb_resolution, new_sentences, removed].
\* An exception in the first pass ends the call there.
AddKnowledgeResult(ai, cell, count) ==
    LET h == AddKnowledgeFirstHalf(ai, cell, count)
    IN  IF h.ai.raised
        THEN [ai |-> h.ai, new_sentence |-> h.new_sentence,
              kb_resolution |-> <<>>, new_sentences |-> <<>>,
              removed |-> h.removed]
        ELSE LET derived == Resolution(h.ai.knowledge)
                 ai5 == [h.ai EXCEPT !.knowledge = @ \o derived]
             IN  [ai |-> mark_sels_as_mine_or_safe(ai5),
                  new_sentence |-> h.new_sentence,
                  kb_resolution |-> h.ai.knowledge,
                  new_sentences |-> derived,
                  removed |-> h.removed \o PassRemoved(ai5)]

\* make_safe_move without the test of line 288
SafeMoveResults_any_safe(ai) ==
    IF ai.safes # {} THEN ai.safes ELSE {None}

\* MinesweeperAI.make_safe_move: the values the call can return.  The loop
\* of line 287 walks a set, whose order is not fixed.
SafeMoveResults(ai) ==
    IF ai.safes \ ai.moves_made # {} THEN ai.safes \ ai.moves_made ELSE {None}

\* make_random_move without the second test of line 304
RandomMoveResults_any_unplayed(ai) ==
    LET random_moves == {c \in Cells : c \notin ai.moves_made}
    IN  IF random_moves # {} THEN random_moves ELSE {None}

\* MinesweeperAI.make_random_move: the values the call can return.
RandomMoveResults(ai) ==
    LET random_moves == {c \in Cells : c \notin ai.moves_made /\ c \notin ai.mines}
    IN  IF random_moves # {} THEN random_moves ELSE {None}

-----------------------------------------------------------------------------
(* class Minesweeper: the board that answers the reveals *)

\* Minesweeper.nearby_mines
nearby_mines(b, cell) ==
    Cardinality({c \in Around(cell) : c # cell /\ InBounds(c) /\ c \in b})

Boards == {b \in SUBSET Cells : Cardinality(b) <= MaxMines}

-----------------------------------------------------------------------------
(* The state machine *)

CurrentAI ==
    [moves_made |-> moves_made, mines |-> mines, safes |-> safes,
     knowledge |-> knowledge, raised |-> raised]

InitAI ==
    /\ moves_made = AI_init.moves_made
    /\ mines = AI_init.mines
    /\ safes = AI_init.safes
    /\ knowledge = AI_init.knowledge
    /\ raised = AI_init.raised
    /\ last_op = "init"
    /\ arg_cell = NoCell
    /\ arg_count = 0
    /\ new_sentence = Sentence({}, 0)
    /\ kb_resolution = <<>>
    /\ new_sentences = <<>>
    /\ calls = 0
    /\ removed = <<>>
    /\ repeated = FALSE
    /\ ret_move = None
    /\ sentences = <<>>
    /\ arg_index = 0
    /\ ret_cells = {}

\* No corpus is loaded and transition_model has not been called.
InitNoCorpus ==
    /\ corpus = <<>>
    /\ arg_page = 0
    /\ arg_damping = <<0, 1>>
    /\ ret_dist = <<>>

PagerankUnchanged == UNCHANGED <<corpus, arg_page, arg_damping, ret_dist>>

Init == board = {} /\ InitAI /\ InitNoCorpus

InitTruthful == board \in Boards /\ InitAI /\ InitNoCorpus

\* A game on any board.
InitGame == board \in SUBSET Cells /\ InitAI /\ InitNoCorpus

SetAI(ai) ==
    /\ moves_made' = ai.moves_made
    /\ mines' = ai.mines
    /\ safes' = ai.safes
    /\ knowledge' = ai.knowledge
    /\ raised' = ai.raised

\* What a call on the knowledge base leaves alone.
SentencesUnchanged ==
    /\ UNCHANGED <<board, sentences, arg_index, ret_cells>>
    /\ PagerankUnchanged

\* What a call on a Sentence object leaves alone.
AIUnchanged ==
    /\ UNCHANGED <<board, moves_made, safes, mines, knowledge, raised>>
    /\ UNCHANGED <<new_sentence, kb_resolution, new_sentences, removed>>
    /\ UNCHANGED <<arg_count, repeated, ret_move>>
    /\ PagerankUnchanged

\* add_knowledge's locals are gone when another method returns.
NoLocals ==
    /\ new_sentence' = Sentence({}, 0)
    /\ kb_resolution' = <<>>
    /\ new_sentences' = <<>>
    /\ removed' = <<>>

add_knowledge(cell, count) ==
    /\ ~raised
    /\ calls < MaxCalls
    /\ LET r == AddKnowledgeResult(CurrentAI, cell, count)
       IN  /\ SetAI(r.ai)
           /\ new_sentence' = r.new_sentence
           /\ kb_resolution' = r.kb_resolution
           /\ new_sentences' = r.new_sentences
           /\ removed' = r.removed
    /\ last_op' = "add_knowledge"
    /\ arg_cell' = cell
    /\ arg_count' = count
    /\ calls' = calls + 1
    /\ repeated' = FALSE
    /\ ret_move' = None
    /\ SentencesUnchanged

mark_mine(cell) ==
    /\ ~raised
    /\ calls < MaxCalls
    /\ SetAI(AI_mark_mine(CurrentAI, cell))
    /\ last_op' = "mark_mine"
    /\ arg_cell' = cell
    /\ arg_count' = 0
    /\ NoLocals
    /\ calls' = calls + 1
    /\ repeated' = (last_op = "mark_mine" /\ arg_cell = cell)
    /\ ret_move' = None
    /\ SentencesUnchanged

mark_safe(cell) ==
    /\ ~raised
    /\ calls < MaxCalls
    /\ SetAI(AI_mark_safe(CurrentAI, cell))
    /\ last_op' = "mark_safe"
    /\ arg_cell' = cell
    /\ arg_count' = 0
    /\ NoLocals
    /\ calls' = calls + 1
    /\ repeated' = (last_op = "mark_safe" /\ arg_cell = cell)
    /\ ret_move' = None
    /\ SentencesUnchanged

make_safe_move ==
    /\ ~raised
    /\ calls < MaxCalls
    /\ ret_move' \in SafeMoveResults(CurrentAI)
    /\ last_op' = "make_safe_move"
    /\ arg_cell' = NoCell
    /\ arg_count' = 0
    /\ NoLocals
    /\ calls' = calls + 1
    /\ repeated' = FALSE
    /\ UNCHANGED <<moves_made, safes, mines, knowledge, raised>>
    /\ SentencesUnchanged

make_random_move ==
    /\ ~raised
    /\ calls < MaxCalls
    /\ ret_move' \in RandomMoveResults(CurrentAI)
    /\ last_op' = "make_random_move"
    /\ arg_cell' = NoCell
    /\ arg_count' = 0
    /\ NoLocals
    /\ calls' = calls + 1
    /\ repeated' = FALSE
    /\ UNCHANGED <<moves_made, safes, mines, knowledge, raised>>
    /\ SentencesUnchanged

\* A reveal of a cell that holds no mine, answered by the board.
Reveal(cell) ==
    /\ cell \notin board
    /\ add_knowledge(cell, nearby_mines(board, cell))

AnyAddKnowledge == \E cell \in Cells, count \in Counts : add_knowledge(cell, count)

AnyMarkMine == \E cell \in Cells : mark_mine(cell)

AnyMarkSafe == \E cell \in Cells : mark_safe(cell)

AnyReveal == \E cell \in Cells : Reveal(cell)

Next ==
    \/ AnyAddKnowledge \/ AnyMarkMine \/ AnyMarkSafe
    \/ make_safe_move \/ make_random_move

NextTruthful == AnyReveal

NextGame == AnyReveal \/ make_safe_move \/ make_random_move

\* Any sequence of calls, with any counts.
Spec == Init /\ [][Next]_vars

\* A fixed board; every call reveals a non-mine cell with its true count.
SpecTruthful == InitTruthful /\ [][NextTruthful]_vars

\* A game on any board: truthful reveals and move queries.
SpecGame == InitGame /\ [][NextGame]_vars

-----------------------------------------------------------------------------
(* Sentence objects on their own *)

\* The cells the sentences under test are built from: the first row.
SentenceCells == {c \in Cells : c[1] = 0}

\* Sentence(cells, count)
new_Sentence(cells, count) ==
    /\ calls < MaxCalls
    /\ Len(sentences) < MaxSentences
    /\ sentences' = Append(sentences, Sentence(cells, count))
    /\ last_op' = "Sentence"
    /\ arg_index' = Len(sentences) + 1
    /\ arg_cell' = NoCell
    /\ ret_cells' = {}
    /\ calls' = calls + 1
    /\ AIUnchanged

\* sentences[k].mark_mine(cell)
call_Sentence_mark_mine(k, cell) ==
    /\ calls < MaxCalls
    /\ sentences' = [sentences EXCEPT ![k] = Sentence_mark_mine(@, cell)]
    /\ last_op' = "Sentence.mark_mine"
    /\ arg_index' = k
    /\ arg_cell' = cell
    /\ ret_cells' = {}
    /\ calls' = calls + 1
    /\ AIUnchanged

\* sentences[k].mark_safe(cell)
call_Sentence_mark_safe(k, cell) ==
    /\ calls < MaxCalls
    /\ sentences' = [sentences EXCEPT ![k] = Sentence_mark_safe(@, cell)]
    /\ last_op' = "Sentence.mark_safe"
    /\ arg_index' = k
    /\ arg_cell' = cell
    /\ ret_cells' = {}
    /\ calls' = calls + 1
    /\ AIUnchanged

\* sentences[k].known_mines()
known_mines(k) ==
    /\ calls < MaxCalls
    /\ LET r == Sentence_known_mines(sentences[k])
       IN  /\ sentences' = [sentences EXCEPT ![k] = r.self]
           /\ ret_cells' = r.ret
    /\ last_op' = "known_mines"
    /\ arg_index' = k
    /\ arg_cell' = NoCell
    /\ calls' = calls + 1
    /\ AIUnchanged

\* sentences[k].known_safes()
known_safes(k) ==
    /\ calls < MaxCalls
    /\ LET r == Sentence_known_safes(sentences[k])
       IN  /\ sentences' = [sentences EXCEPT ![k] = r.self]
           /\ ret_cells' = r.ret
    /\ last_op' = "known_safes"
    /\ arg_index' = k
    /\ arg_cell' = NoCell
    /\ calls' = calls + 1
    /\ AIUnchanged

AnyNewSentence ==
    \E cells \in SUBSET SentenceCells, count \in Counts : new_Sentence(cells, count)

AnySentenceMarkMine ==
    \E k \in DOMAIN sentences, cell \in SentenceCells : call_Sentence_mark_mine(k, cell)

AnySentenceMarkSafe ==
    \E k \in DOMAIN sentences, cell \in SentenceCells : call_Sentence_mark_safe(k, cell)

AnyKnownMines == \E k \in DOMAIN sentences : known_mines(k)

AnyKnownSafes == \E k \in DOMAIN sentences : known_safes(k)

NextSentence ==
    \/ AnyNewSentence \/ AnySentenceMarkMine \/ AnySentenceMarkSafe
    \/ AnyKnownMines \/ AnyKnownSafes

\* Sentences built from any cells and count, then any of their methods.
SpecSentence == Init /\ [][NextSentence]_vars

-----------------------------------------------------------------------------
(* pagerank.py: transition_model *)

\* Pages are numbered 1..MaxPages.
Pages == 1..MaxPages

\* DAMPING = 0.85
DAMPING == <<17, 20>>

\* The damping factors tried: the fractions n / MaxDen strictly between 0
\* and 1, and DAMPING.
Dampings == {<<n, MaxDen>> : n \in 1..(MaxDen - 1)} \cup {DAMPING}

\* The dictionaries crawl can return: every page maps to a set of other
\* pages of the corpus (a page's link to itself is dropped at line 40, links
\* out of the corpus at lines 43-47).
Corpora ==
    UNION {{c \in [ps -> SUBSET ps] : \A p \in ps : p \notin c[p]} :
               ps \in (SUBSET Pages) \ {{}}}

\* Exact fractions <<numerator, denominator>>, denominator > 0
RatSub(a, b) == <<a[1] * b[2] - b[1] * a[2], a[2] * b[2]>>

RatAdd(a, b) == <<a[1] * b[2] + b[1] * a[2], a[2] * b[2]>>

RatDivInt(a, n) == <<a[1], a[2] * n>>

RatEq(a, b) == a[1] * b[2] = b[1] * a[2]

\* sum(ret.values())
RECURSIVE RatSum(_, _)
RatSum(f, keys) ==
    IF keys = {} THEN <<0, 1>>
    ELSE LET k == CHOOSE x \in keys : TRUE
         IN  RatAdd(f[k], RatSum(f, keys \ {k}))

\* transition_model(corpus, page, damping_factor).  A page without links
\* never reaches line 69, so len(pages) never divides by zero.
transition_model(c, page, damping_factor) ==
    LET pages == c[page]
    IN  [key \in DOMAIN c |->
            IF key = page \/ key \notin pages
            THEN RatDivInt(RatSub(<<1, 1>>, damping_factor), Cardinality(DOMAIN c))
            ELSE RatDivInt(damping_factor, Cardinality(pages))]

InitPagerank ==
    /\ board = {}
    /\ InitAI
    /\ corpus \in Corpora
    /\ arg_page = 0
    /\ arg_damping = <<0, 1>>
    /\ ret_dist = <<>>

call_transition_model(page, damping_factor) ==
    /\ ret_dist' = transition_model(corpus, page, damping_factor)
    /\ arg_page' = page
    /\ arg_damping' = damping_factor
    /\ last_op' = "transition_model"
    /\ UNCHANGED corpus
    /\ UNCHANGED <<board, moves_made, safes, mines, knowledge, raised, calls>>
    /\ UNCHANGED <<new_sentence, kb_resolution, new_sentences, removed>>
    /\ UNCHANGED <<arg_cell, arg_count, repeated, ret_move>>
    /\ UNCHANGED <<sentences, arg_index, ret_cells>>

NextPagerank ==
    \E page \in DOMAIN corpus, damping_factor \in Dampings :
        call_transition_model(page, damping_factor)

\* Any corpus crawl can return, then transition_model on any of its pages.
SpecPagerank == InitPagerank /\ [][NextPagerank]_vars

-----------------------------------------------------------------------------
(* Properties *)

AfterAddKnowledge == last_op = "add_knowledge"

\* 0 <= count <= |cells|
WellFormed(s) == 0 <= s.count /\ s.count <= Cardinality(s.cells)

\* c and d are distinct cells within one row and one column of each other
Adjacent(c, d) ==
    /\ c # d
    /\ c[1] - d[1] \in {-1, 0, 1}
    /\ c[2] - d[2] \in {-1, 0, 1}

\* C1: with truthful counts on non-mine cells of a fixed board, after every
\* call each cell in `mines` is a mine of the board and each cell in `safes`
\* is not a mine of the board.
C1_SoundAgainstBoard ==
    /\ mines \subseteq board
    /\ safes \cap board = {}

\* C1 witness: a call has deduced a mine and a safe cell that was not revealed.
C1_Witness ==
    /\ AfterAddKnowledge
    /\ mines # {}
    /\ safes \ moves_made # {}

\* C2: with truthful counts, no cell is both in `safes` and in `mines`.
C2_SafesMinesDisjoint == safes \cap mines = {}

\* C2 witness: both sets are non-empty and sentences are still open.
C2_Witness ==
    /\ AfterAddKnowledge
    /\ safes # {}
    /\ mines # {}
    /\ \E k \in DOMAIN knowledge : knowledge[k].cells # {}

\* C3: with truthful counts, every sentence in `knowledge` has
\* 0 <= count <= |cells|, and so has every sentence derived by subset
\* resolution at the moment it is appended.
C3_SentenceInvariant ==
    /\ \A k \in DOMAIN knowledge : WellFormed(knowledge[k])
    /\ \A k \in DOMAIN new_sentences : WellFormed(new_sentences[k])

\* C3 witness: resolution derived a sentence with cells and a positive count,
\* and a sentence with cells is left in `knowledge`.
C3_Witness ==
    /\ AfterAddKnowledge
    /\ \E k \in DOMAIN new_sentences :
           new_sentences[k].cells # {} /\ new_sentences[k].count > 0
    /\ \E k \in DOMAIN knowledge : knowledge[k].cells # {}

\* C4: after every return of add_knowledge, mark_mine or mark_safe, with any
\* cell and any count, no cell of a sentence in `knowledge` is in `safes` or
\* in `mines`.
C4_PurgeInvariant ==
    \A k \in DOMAIN knowledge :
        knowledge[k].cells \cap (safes \cup mines) = {}

\* C4 witness: a direct mark_mine removed its cell from a sentence that
\* still has cells.
C4_Witness ==
    /\ last_op = "mark_mine"
    /\ \E k \in DOMAIN knowledge :
           /\ arg_cell \in knowledge[k].known_mine_set
           /\ knowledge[k].cells # {}

\* C5: whenever add_knowledge returns (truthful counts), no sentence left in
\* `knowledge` is trivial: none has an empty cell set, a count of 0 or a
\* count equal to its number of cells.
C5_NoTrivialSentence ==
    AfterAddKnowledge =>
        \A k \in DOMAIN knowledge :
            /\ knowledge[k].cells # {}
            /\ knowledge[k].count # 0
            /\ knowledge[k].count # Cardinality(knowledge[k].cells)

\* C6: whenever add_knowledge returns, for every two sentences A and B in
\* `knowledge` with B.cells a strict subset of A.cells, the sentence
\* (A.cells \ B.cells, A.count - B.count) is in `knowledge` too.
C6_ResolutionClosed ==
    AfterAddKnowledge =>
        \A a, b \in DOMAIN knowledge :
            (/\ knowledge[b].cells \subseteq knowledge[a].cells
             /\ knowledge[b].cells # knowledge[a].cells)
            => InKnowledge(knowledge,
                           Sentence(knowledge[a].cells \ knowledge[b].cells,
                                    knowledge[a].count - knowledge[b].count))

\* C7: `knowledge` never holds two equal sentences (same cells, same count).
C7_NoDuplicateSentences ==
    \A a, b \in DOMAIN knowledge :
        a # b => ~Sentence_eq(knowledge[a], knowledge[b])

\* The example of C8: no prior knowledge, add_knowledge((1,1), 1).
C8_Example ==
    (/\ knowledge = <<>> /\ safes = {} /\ mines = {}
     /\ arg_cell' = <<1, 1>> /\ arg_count' = 1)
    => new_sentence' =
           Sentence({<<0, 0>>, <<0, 1>>, <<0, 2>>, <<1, 0>>, <<1, 2>>,
                     <<2, 0>>, <<2, 1>>, <<2, 2>>}, 1)

\* C8 as stated: the sentence built by add_knowledge(cell, count) has as
\* cells the in-bounds neighbours of `cell` in neither `safes` nor `mines`,
\* and as count the given count minus the number of neighbours in `mines`.
C8_BuiltSentence_Original ==
    [][(last_op' = "add_knowledge" /\ calls' = calls + 1) =>
        /\ new_sentence'.cells =
               {c \in Cells : Adjacent(c, arg_cell') /\ c \notin safes \cup mines}
        /\ new_sentence'.count = arg_count'
               - Cardinality({c \in Cells : Adjacent(c, arg_cell') /\ c \in mines})
        /\ C8_Example]_vars

\* C8 amended: the count is the given count minus the number of neighbours
\* that are in `mines` and not in `safes`; the rest as stated.
C8_BuiltSentence ==
    [][(last_op' = "add_knowledge" /\ calls' = calls + 1) =>
        /\ new_sentence'.cells =
               {c \in Cells : Adjacent(c, arg_cell') /\ c \notin safes \cup mines}
        /\ new_sentence'.count = arg_count'
               - Cardinality({c \in Cells : Adjacent(c, arg_cell')
                                            /\ c \in mines \ safes})
        /\ C8_Example]_vars

\* C8 witness: a sentence was built next to a known mine and a known safe
\* cell, and it has cells.
C8_Witness ==
    /\ AfterAddKnowledge
    /\ new_sentence.cells # {}
    /\ new_sentence.count # arg_count
    /\ \E c \in safes : Adjacent(c, arg_cell)

\* C9: with truthful counts, if `knowledge` holds A and B with B.cells a
\* strict subset of A.cells when add_knowledge reaches its resolution step,
\* then at return every cell of A.cells \ B.cells is in `safes` if
\* A.count = B.count, and in `mines` if A.count - B.count = |A.cells \ B.cells|.
C9_SubsetDeduction ==
    AfterAddKnowledge =>
        \A a, b \in DOMAIN kb_resolution :
            LET A == kb_resolution[a]
                B == kb_resolution[b]
            IN  (B.cells \subseteq A.cells /\ B.cells # A.cells) =>
                    /\ A.count = B.count => (A.cells \ B.cells) \subseteq safes
                    /\ A.count - B.count = Cardinality(A.cells \ B.cells)
                           => (A.cells \ B.cells) \subseteq mines

\* C9 witness: the resolution step met a pair A, B with B.cells non-empty and
\* strictly inside A.cells, and all of A.cells \ B.cells mines by the counts.
C9_Witness ==
    /\ AfterAddKnowledge
    /\ \E a, b \in DOMAIN kb_resolution :
           LET A == kb_resolution[a]
               B == kb_resolution[b]
           IN  /\ B.cells # {}
               /\ B.cells \subseteq A.cells /\ B.cells # A.cells
               /\ A.count - B.count = Cardinality(A.cells \ B.cells)

\* The other case of C9 is reached too: equal counts, A.cells \ B.cells safe.
C9_WitnessSafes ==
    /\ AfterAddKnowledge
    /\ \E a, b \in DOMAIN kb_resolution :
           LET A == kb_resolution[a]
               B == kb_resolution[b]
           IN  /\ B.cells # {}
               /\ B.cells \subseteq A.cells /\ B.cells # A.cells
               /\ A.count = B.count

\* C10: for any sequence of add_knowledge calls with in-bounds cells and
\* arbitrary counts, no call raises: the last loop of
\* mark_sels_as_mine_or_safe never finds a sentence cell that is in `mines`.
C10_NeverRaises == ~raised

\* C10 witness: add_knowledge returned with known mines and with a sentence
\* that has cells and a count no board can give.
C10_Witness ==
    /\ AfterAddKnowledge
    /\ mines # {}
    /\ \E k \in DOMAIN knowledge :
           /\ knowledge[k].cells # {}
           /\ ~WellFormed(knowledge[k])

\* C11: across every call of add_knowledge, mark_mine and mark_safe, each of
\* `safes`, `mines` and `moves_made` after the call is a superset of its
\* value before the call.
C11_Monotonic ==
    [][/\ safes \subseteq safes'
       /\ mines \subseteq mines'
       /\ moves_made \subseteq moves_made']_vars

\* C11 witness: after a direct mark_safe the three sets hold cells of earlier
\* calls, and `safes` holds the cell just marked.
C11_Witness ==
    /\ last_op = "mark_safe"
    /\ arg_cell \in safes
    /\ moves_made # {}
    /\ mines # {}
    /\ safes \ (moves_made \cup {arg_cell}) # {}

\* C12: in every state reachable by add_knowledge, mark_mine and mark_safe
\* calls, moves_made is a subset of safes.
C12_MovesAreSafe == moves_made \subseteq safes

\* C12 witness: two cells were played and `safes` holds further cells.
C12_Witness ==
    /\ AfterAddKnowledge
    /\ Cardinality(moves_made) >= 2
    /\ safes \ moves_made # {}

\* The cells and the count of every sentence of `knowledge` are the same
\* before and after the step.
SentencesKept ==
    /\ Len(knowledge') = Len(knowledge)
    /\ \A k \in DOMAIN knowledge :
           /\ knowledge'[k].cells = knowledge[k].cells
           /\ knowledge'[k].count = knowledge[k].count

\* C13: a second call of MinesweeperAI.mark_safe(c), or of
\* MinesweeperAI.mark_mine(c), right after a first one with the same cell
\* leaves `safes`, `mines`, `moves_made` and the cells and count of every
\* sentence as the first call left them.
C13_MarkIdempotent ==
    [][repeated' =>
          /\ safes' = safes
          /\ mines' = mines
          /\ moves_made' = moves_made
          /\ SentencesKept]_vars

\* C13 witness: mark_mine(c) was called twice in a row and a sentence that
\* held c had its count decremented by the first call.
C13_Witness ==
    /\ repeated
    /\ last_op = "mark_mine"
    /\ \E k \in DOMAIN knowledge :
           /\ arg_cell \in knowledge[k].known_mine_set
           /\ knowledge[k].cells # {}

\* C13 witness: mark_safe(c) was called twice in a row on a cell a sentence
\* held.
C13_WitnessSafe ==
    /\ repeated
    /\ last_op = "mark_safe"
    /\ \E k \in DOMAIN knowledge :
           /\ arg_cell \in knowledge[k].known_safe_set
           /\ knowledge[k].cells # {}

\* C14: make_safe_move returns a cell of safes \ moves_made when that set
\* is not empty, returns None exactly when it is empty, and leaves `safes`,
\* `mines`, `moves_made` and `knowledge` unchanged.
C14_SafeMove ==
    [][last_op' = "make_safe_move" =>
          /\ safes \ moves_made # {} => ret_move' \in safes \ moves_made
          /\ ret_move' = None <=> safes \ moves_made = {}
          /\ UNCHANGED <<safes, mines, moves_made, knowledge>>]_vars

\* C14 witness: make_safe_move returned a safe cell while other safe cells
\* had already been played.
C14_Witness ==
    /\ last_op = "make_safe_move"
    /\ ret_move \in safes \ moves_made
    /\ moves_made # {}

\* C14 witness: make_safe_move returned None although `safes` holds cells,
\* all of them played.
C14_WitnessNone ==
    /\ last_op = "make_safe_move"
    /\ ret_move = None
    /\ safes # {}

\* C15: make_random_move returns only a cell of the board that is neither in
\* `moves_made` nor in `mines`, returns None exactly when every cell of the
\* board is in moves_made \cup mines, and leaves the knowledge base unchanged.
C15_RandomMove ==
    [][last_op' = "make_random_move" =>
          /\ ret_move' # None =>
                 /\ ret_move'[1] \in 0..(Height - 1)
                 /\ ret_move'[2] \in 0..(Width - 1)
                 /\ ret_move' \notin moves_made
                 /\ ret_move' \notin mines
          /\ ret_move' = None <=> Cells \subseteq moves_made \cup mines
          /\ UNCHANGED <<safes, mines, moves_made, knowledge>>]_vars

\* C15 witness: make_random_move returned None on a board whose cells are
\* all played or known mines.
C15_Witness ==
    /\ last_op = "make_random_move"
    /\ ret_move = None
    /\ moves_made # {}
    /\ mines # {}

\* C15 witness: make_random_move returned a cell while mines were known and
\* cells had been played.
C15_WitnessCell ==
    /\ last_op = "make_random_move"
    /\ ret_move # None
    /\ moves_made # {}
    /\ mines # {}

\* The Sentence objects other than the one the call is made on, and the
\* fact sets and sentences of the knowledge base, are the same before and
\* after the step.
OnlyTargetTouched ==
    /\ Len(sentences') = Len(sentences)
    /\ \A j \in DOMAIN sentences : j # arg_index' => sentences'[j] = sentences[j]
    /\ UNCHANGED <<safes, mines, moves_made, knowledge>>

\* C16: Sentence.mark_mine(c) removes c from the sentence's cells and
\* decrements its count by exactly 1 when c is in cells, and changes neither
\* otherwise; Sentence.mark_safe(c) removes c and keeps the count when c is in
\* cells, and changes neither otherwise; no other sentence and no fact set of
\* the knowledge base is touched.
C16_SentenceMarkEffect ==
    [][/\ last_op' = "Sentence.mark_mine" =>
              LET old == sentences[arg_index']
                  new == sentences'[arg_index']
              IN  /\ arg_cell' \in old.cells =>
                         /\ new.cells = old.cells \ {arg_cell'}
                         /\ new.count = old.count - 1
                  /\ arg_cell' \notin old.cells =>
                         /\ new.cells = old.cells
                         /\ new.count = old.count
                  /\ OnlyTargetTouched
       /\ last_op' = "Sentence.mark_safe" =>
              LET old == sentences[arg_index']
                  new == sentences'[arg_index']
              IN  /\ arg_cell' \in old.cells =>
                         /\ new.cells = old.cells \ {arg_cell'}
                         /\ new.count = old.count
                  /\ arg_cell' \notin old.cells =>
                         /\ new.cells = old.cells
                         /\ new.count = old.count
                  /\ OnlyTargetTouched]_vars

\* C16 witness: mark_mine removed a cell from one sentence while another
\* sentence still holds that cell.
C16_Witness ==
    /\ last_op = "Sentence.mark_mine"
    /\ arg_cell \in sentences[arg_index].known_mine_set
    /\ \E j \in DOMAIN sentences : j # arg_index /\ arg_cell \in sentences[j].cells

\* C16 witness: mark_safe removed a cell from one sentence while another
\* sentence still holds that cell.
C16_WitnessSafe ==
    /\ last_op = "Sentence.mark_safe"
    /\ arg_cell \in sentences[arg_index].known_safe_set
    /\ sentences[arg_index].count > 0
    /\ \E j \in DOMAIN sentences : j # arg_index /\ arg_cell \in sentences[j].cells

\* C17: known_mines() returns the sentence's cells when count = |cells| and
\* count > 0 and the empty set otherwise; known_safes() returns the
\* sentence's cells when count = 0 and the empty set otherwise.
C17_QueryResult ==
    [][/\ last_op' = "known_mines" =>
              LET old == sentences[arg_index']
              IN  ret_cells' = IF old.count = Cardinality(old.cells) /\ old.count > 0
                               THEN old.cells ELSE {}
       /\ last_op' = "known_safes" =>
              LET old == sentences[arg_index']
              IN  ret_cells' = IF old.count = 0 THEN old.cells ELSE {}]_vars

\* C18: known_mines() and known_safes() leave the cells and the count of the
\* sentence they are called on unchanged, so that it compares equal to its
\* value before the call.
C18_QueryReadOnly ==
    [][last_op' \in {"known_mines", "known_safes"} =>
          Sentence_eq(sentences'[arg_index'], sentences[arg_index'])]_vars

\* C20: every element that the runs of mark_sels_as_mine_or_safe inside a
\* call of add_knowledge removed from `knowledge` had an empty cell set when
\* it was removed, whichever equal element list.remove picked.
C20_RemovedAreEmpty ==
    \A k \in DOMAIN removed : removed[k].cells = {}

\* C20 witness: a call removed two elements and left sentences with cells in
\* `knowledge`.
C20_Witness ==
    /\ AfterAddKnowledge
    /\ Len(removed) >= 2
    /\ \E k \in DOMAIN knowledge : knowledge[k].cells # {}

\* C19: the dictionary transition_model returns has one entry per page of
\* the corpus and its values, added as exact fractions, sum to 1.
C19_Distribution ==
    last_op = "transition_model" =>
        /\ DOMAIN ret_dist = DOMAIN corpus
        /\ RatEq(RatSum(ret_dist, DOMAIN ret_dist), <<1, 1>>)

====
